---- MODULE Spec2Model ----
(***************************************************************************)
(* Model of the inventory back-office of avtofamily: the derived state     *)
(* kept by Car.save (slug, published_at, status_changed_at), the           *)
(* single-primary-image bookkeeping of CarImage.save, and the make/model   *)
(* validation of CarSerializer.                                            *)
(*                                                                         *)
(* The database is a set of tables (functions from primary key to row);    *)
(* model instances held by Python code are "handles": an in-memory copy of *)
(* a row that may be stale with respect to the table.                      *)
(***************************************************************************)
EXTENDS Integers, FiniteSets, Sequences, TLC

\* ---------------------------------------------------------------- bounds
MaxTime == 3        \* last tick of the clock at which a save may start
MaxCarId == 2       \* last identifier the Car sequence hands out
MaxImageId == 2     \* last identifier the CarImage sequence hands out

\* ------------------------------------------------------------- constants
NULL == 0           \* SQL NULL / Python None for identifiers and timestamps

Handles == {"h1", "h2"}

DRAFT == "draft"
REVIEW == "review"
READY == "ready"
PUBLISHED == "published"
ARCHIVED == "archived"
Status == {DRAFT, REVIEW, READY, PUBLISHED, ARCHIVED}

\* The statuses callers assign in the runs explored: Car.save tells published
\* from the rest and otherwise only compares statuses for equality.
StatusInputs == {DRAFT, PUBLISHED, ARCHIVED}

\* The lookup tables: Make rows and CarModel rows (CarModel.make is a
\* foreign key to Make).
Makes == {1, 2}
CarModels == {1, 2}

\* Column names callers pass in update_fields in the runs explored.  "price"
\* stands for every column Car.save does not look at.
FieldNames == {"status", "status_changed_at", "price"}

\* The update_fields keyword of save(): absent (None), or a list of names.
UpdateFieldsArgs ==
    {[given |-> FALSE, names |-> {}]} \cup
    {[given |-> TRUE, names |-> s] : s \in SUBSET FieldNames}

NoFields == [given |-> FALSE, names |-> {}]

VARIABLES
    now,        \* the clock read by timezone.now()
    makes,      \* Make table:     id -> [slug]
    carmodels,  \* CarModel table: id -> [make, slug]
    cars,       \* Car table:      id -> row
    carSeq,     \* last identifier handed out by the Car sequence
    mem,        \* Car instances held in memory: handle -> instance
    pc,         \* handle -> where its request stands inside a save
    last,       \* the most recent operation and how it ended
    images,     \* CarImage table: id -> row
    imageSeq,   \* last identifier handed out by the CarImage sequence
    imem,       \* CarImage instances held in memory: handle -> instance
    pic         \* the file going through optimise_car_image, pass by pass

imageVars == <<images, imageSeq, imem>>
vars == <<now, makes, carmodels, cars, carSeq, mem, pc, last, imageVars, pic>>

\* ------------------------------------------------------------ Car: rows
CarIds == 1..MaxCarId
ImageIds == 1..MaxImageId

\* An image file is the committed JPEG the pipeline stored, or an upload not
\* yet committed: one the codec can decode, or one it cannot.
STORED == "stored.jpg"
UPLOAD == "upload.png"
GARBAGE == "upload.bin"
Uploads == {UPLOAD, GARBAGE}

\* An image file as optimise_car_image sees it: the dot-separated parts of its
\* name, the codec format, the pixel mode, the EXIF orientation tag (1 when
\* upright or absent) and the stored width and height.
NoFile ==
    [name |-> <<>>, format |-> "", mode |-> "", orientation |-> 1,
     width |-> 1, height |-> 1]

\* No file has been uploaded: `passes` counts the runs of optimise_car_image,
\* `source` is the input of the latest run and `result` its output.
NoPicture == [passes |-> 0, source |-> NoFile, result |-> NoFile]

NoImageRow ==
    [exists |-> FALSE, car |-> 1, is_primary |-> FALSE, image |-> STORED,
     caption |-> "", ordering |-> 0]

NoImageInst ==
    [bound |-> FALSE, pk |-> NULL, car |-> 1, is_primary |-> FALSE,
     image |-> STORED, caption |-> "", ordering |-> 0]

NoCarRow ==
    [exists |-> FALSE, slug |-> <<>>, vin |-> "", make |-> 1, model |-> 1,
     price |-> 0, status |-> DRAFT, status_changed_at |-> NULL,
     published_at |-> NULL]

NoCarInst ==
    [bound |-> FALSE, pk |-> NULL, slug |-> <<>>, vin |-> "", make |-> 1,
     model |-> 1, price |-> 0, status |-> DRAFT, status_changed_at |-> NULL,
     published_at |-> NULL]

\* Car(...): a new unsaved instance.  status defaults to draft unless given,
\* status_changed_at defaults to timezone.now at construction, published_at
\* to None, slug to blank.
NewCarInst(st, mk, md, vin, slug, t) ==
    [bound |-> TRUE, pk |-> NULL, slug |-> slug, vin |-> vin, make |-> mk,
     model |-> md, price |-> 0, status |-> st, status_changed_at |-> t,
     published_at |-> NULL]

\* Car.objects.get(pk=...) / refresh_from_db(): the instance is the row.
CarInstOfRow(pk, row) ==
    [bound |-> TRUE, pk |-> pk, slug |-> row.slug, vin |-> row.vin,
     make |-> row.make, model |-> row.model, price |-> row.price,
     status |-> row.status, status_changed_at |-> row.status_changed_at,
     published_at |-> row.published_at]

CarRowOfInst(inst) ==
    [exists |-> TRUE, slug |-> inst.slug, vin |-> inst.vin, make |-> inst.make,
     model |-> inst.model, price |-> inst.price, status |-> inst.status,
     status_changed_at |-> inst.status_changed_at,
     published_at |-> inst.published_at]

\* ------------------------------------------------------- Car: slugify
\* A slug is the sequence of its hyphen-separated words.  slugify() lowercases,
\* collapses runs of separators and trims leading and trailing hyphens, so the
\* empty words of the source string disappear.
Slugify(parts) == SelectSeq(parts, LAMBDA p : p # "")

PkText(pk) == IF pk = NULL THEN "" ELSE ToString(pk)

\* self.vin or self.pk or ''
SlugSuffix(inst) == IF inst.vin # "" THEN inst.vin ELSE PkText(inst.pk)

\* A save that derives the slug every time.
DerivedSlugAlways(inst, mks, mds) ==
    Slugify(<<mks[inst.make].slug, mds[inst.model].slug, SlugSuffix(inst)>>)

\* lines 200-204: derived only while the instance's slug is blank
DerivedSlug(inst, mks, mds) ==
    IF inst.slug # <<>> THEN inst.slug
    ELSE Slugify(<<mks[inst.make].slug, mds[inst.model].slug, SlugSuffix(inst)>>)

\* ------------------------------------------------- Car: the two stamps
\* lines 206-207
PublishedAtStamp(inst, t) ==
    IF inst.status = PUBLISHED /\ inst.published_at = NULL
    THEN t ELSE inst.published_at

\* line 209: kwargs.get("update_fields") or []
UpdateFields(uf) == IF uf.given THEN uf.names ELSE {}

\* lines 218-223: .filter(pk=self.pk).values_list("status").first()
PreviousStatus(rows, pk) ==
    IF pk \in CarIds /\ rows[pk].exists THEN rows[pk].status ELSE "None"

\* A save that compares with the stored status whatever update_fields says.
StatusWasChangedIgnoringFields(inst, uf, rows) ==
    IF inst.pk = NULL
    THEN TRUE
    ELSE /\ PreviousStatus(rows, inst.pk) # "None"
         /\ PreviousStatus(rows, inst.pk) # inst.status

\* lines 210-224
StatusWasChanged(inst, uf, rows) ==
    IF UpdateFields(uf) # {}
    THEN "status" \in UpdateFields(uf)
    ELSE IF inst.pk = NULL
         THEN TRUE
         ELSE /\ PreviousStatus(rows, inst.pk) # "None"
              /\ PreviousStatus(rows, inst.pk) # inst.status

\* lines 226-227
StatusChangedAtStamp(inst, uf, rows, t) ==
    IF StatusWasChanged(inst, uf, rows) THEN t ELSE inst.status_changed_at

\* lines 200-227: everything Car.save does to the instance before it writes.
CarPrepared(inst, uf, rows, mks, mds, t) ==
    [inst EXCEPT
        !.slug = DerivedSlug(inst, mks, mds),
        !.published_at = PublishedAtStamp(inst, t),
        !.status_changed_at = StatusChangedAtStamp(inst, uf, rows, t)]

\* ------------------------------------------- Car: super().save(**kwargs)
\* A slug column without the unique constraint.
SlugNeverTaken(rows, pk, slug) == FALSE

\* unique=True on Car.slug
SlugTaken(rows, pk, slug) ==
    \E q \in CarIds : q # pk /\ rows[q].exists /\ rows[q].slug = slug

\* UPDATE ... SET <names> WHERE id = pk
CarRowUpdated(row, inst, names) ==
    [row EXCEPT
        !.status = IF "status" \in names THEN inst.status ELSE @,
        !.status_changed_at =
            IF "status_changed_at" \in names THEN inst.status_changed_at ELSE @,
        !.published_at =
            IF "published_at" \in names THEN inst.published_at ELSE @,
        !.slug = IF "slug" \in names THEN inst.slug ELSE @,
        !.price = IF "price" \in names THEN inst.price ELSE @]

\* Model.save as Django runs it: the result is the table, the identifier the
\* instance ends with, and the exception raised ("" when none).
CarWritten(rows, seq, inst, uf) ==
    IF uf.given /\ uf.names = {}
    THEN \* an empty update_fields list: save() returns at once
         [rows |-> rows, seq |-> seq, pk |-> inst.pk, err |-> ""]
    ELSE IF uf.given /\ inst.pk = NULL
    THEN [rows |-> rows, seq |-> seq, pk |-> inst.pk, err |-> "ValueError"]
    ELSE IF uf.given
    THEN IF inst.pk \in CarIds /\ rows[inst.pk].exists
         THEN IF "slug" \in uf.names /\ SlugTaken(rows, inst.pk, inst.slug)
              THEN [rows |-> rows, seq |-> seq, pk |-> inst.pk,
                    err |-> "IntegrityError"]
              ELSE [rows |-> [rows EXCEPT
                                ![inst.pk] = CarRowUpdated(@, inst, uf.names)],
                    seq |-> seq, pk |-> inst.pk, err |-> ""]
         ELSE [rows |-> rows, seq |-> seq, pk |-> inst.pk, err |-> "DatabaseError"]
    ELSE IF inst.pk = NULL
    THEN \* INSERT, the sequence hands out the identifier
         IF SlugTaken(rows, NULL, inst.slug)
         THEN [rows |-> rows, seq |-> seq, pk |-> NULL, err |-> "IntegrityError"]
         ELSE [rows |-> [rows EXCEPT ![seq + 1] = CarRowOfInst(inst)],
               seq |-> seq + 1, pk |-> seq + 1, err |-> ""]
    ELSE \* UPDATE of every column; INSERT when no row matched
         IF SlugTaken(rows, inst.pk, inst.slug)
         THEN [rows |-> rows, seq |-> seq, pk |-> inst.pk, err |-> "IntegrityError"]
         ELSE [rows |-> [rows EXCEPT ![inst.pk] = CarRowOfInst(inst)],
               seq |-> seq, pk |-> inst.pk, err |-> ""]

\* ------------------------------------------------------------ operations
\* `last` records the most recent database operation: its name, the row it was
\* about, the exception it raised ("" when none) and, for Car.save, the two
\* locals of the method: whether update_fields was non-empty and
\* status_was_changed; for CarImage.save, the rows its update() matched.
Op(name, pk, err, declared, changed) ==
    [op |-> name, pk |-> pk, err |-> err, declared |-> declared,
     status_was_changed |-> changed, cleared |-> {}]

\* A request is either outside save() or between the statements of one:
\* `at` is the statement it will run next, `uf` the update_fields it was
\* called with, `t` the tick its timezone.now() calls read, `changed` its
\* local status_was_changed.
AtRest == [at |-> "idle", uf |-> NoFields, t |-> NULL, changed |-> FALSE]

\* Car(status=st): construct an unsaved instance.
CarNew(h, st) ==
    /\ pc[h] = AtRest
    /\ mem' = [mem EXCEPT ![h] = NewCarInst(st, 1, 1, "", <<>>, now)]
    /\ UNCHANGED <<now, makes, carmodels, cars, carSeq, pc, last, imageVars, pic>>

\* Car.objects.get(pk=pk) or car.refresh_from_db()
CarGet(h, pk) ==
    /\ pc[h] = AtRest
    /\ cars[pk].exists
    /\ mem' = [mem EXCEPT ![h] = CarInstOfRow(pk, cars[pk])]
    /\ UNCHANGED <<now, makes, carmodels, cars, carSeq, pc, last, imageVars, pic>>

\* car.status = st
CarSetStatus(h, st) ==
    /\ pc[h] = AtRest
    /\ mem[h].bound
    /\ mem[h].status # st
    /\ mem' = [mem EXCEPT ![h].status = st]
    /\ UNCHANGED <<now, makes, carmodels, cars, carSeq, pc, last, imageVars, pic>>

\* The result of lines 200-229 for the instance held by h, starting at tick t
\* against table `rows`: the prepared instance and what the write does.
CarSaveResult(inst, uf, rows, seq, mks, mds, t) ==
    LET prepared == CarPrepared(inst, uf, rows, mks, mds, t)
        w == CarWritten(rows, seq, prepared, uf)
    IN [rows |-> w.rows, seq |-> w.seq,
        inst |-> [prepared EXCEPT !.pk = w.pk],
        last |-> Op("Car.save", w.pk, w.err, UpdateFields(uf) # {},
                    StatusWasChanged(inst, uf, rows))]

\* car.save(update_fields=uf), run to completion with no other request in
\* between.  Both timezone.now() calls of one save read the same tick, and the
\* clock has advanced when the save returns.
CarSave(h, uf) ==
    /\ \A g \in Handles : pc[g] = AtRest
    /\ mem[h].bound
    /\ now <= MaxTime
    /\ mem[h].pk = NULL /\ ~uf.given => carSeq < MaxCarId
    /\ LET r == CarSaveResult(mem[h], uf, cars, carSeq, makes, carmodels, now)
       IN /\ now' = now + 1
          /\ cars' = r.rows
          /\ carSeq' = r.seq
          /\ mem' = [mem EXCEPT ![h] = r.inst]
          /\ last' = r.last
    /\ UNCHANGED <<makes, carmodels, pc, imageVars, pic>>

\* -------------------------------------------------------- specification
Init ==
    /\ now = 1
    /\ makes = [m \in Makes |-> [slug |-> IF m = 1 THEN "audi" ELSE "bmw"]]
    /\ carmodels = [m \in CarModels |->
                      [make |-> m, slug |-> IF m = 1 THEN "a4" ELSE "x5"]]
    /\ cars = [pk \in CarIds |-> NoCarRow]
    /\ carSeq = 0
    /\ mem = [h \in Handles |-> NoCarInst]
    /\ pc = [h \in Handles |-> AtRest]
    /\ last = Op("", NULL, "", FALSE, FALSE)
    /\ images = [pk \in ImageIds |-> NoImageRow]
    /\ imageSeq = 0
    /\ imem = [h \in Handles |-> NoImageInst]
    /\ pic = NoPicture

Next ==
    \/ \E h \in Handles, st \in StatusInputs : CarNew(h, st)
    \/ \E h \in Handles, pk \in CarIds : CarGet(h, pk)
    \/ \E h \in Handles, st \in StatusInputs : CarSetStatus(h, st)
    \/ \E h \in Handles, uf \in UpdateFieldsArgs : CarSave(h, uf)

Spec == Init /\ [][Next]_vars

\* ------------------------------------------------------------------ C4
\* C4: after any sequence of sequential Car saves the persisted
\* status_changed_at is the time of the most recent save whose persisted
\* status differed from the status persisted before it: a step that creates
\* the row or changes its status stores the tick of that save, and a step that
\* leaves the persisted status alone leaves the persisted status_changed_at
\* alone.
C4_StatusChangedAtTracksTransitions ==
    [][\A pk \in CarIds :
         cars'[pk].exists =>
            IF ~cars[pk].exists \/ cars'[pk].status # cars[pk].status
            THEN cars'[pk].status_changed_at = now
            ELSE cars'[pk].status_changed_at = cars[pk].status_changed_at
      ]_vars

C6_PublishedAtNeverChanges ==
    [][\A pk \in CarIds :
         (cars[pk].exists /\ cars[pk].published_at # NULL /\ cars'[pk].exists) =>
            cars'[pk].published_at = cars[pk].published_at
      ]_vars

\* ------------------------------------------------------------------ C7
\* C7: every save that persists status published for a car whose
\* published_at is unset stores a published_at, so in every persisted state
\* status = published implies published_at is non-null.
C7_PublishedImpliesPublishedAt ==
    \A pk \in CarIds :
        (cars[pk].exists /\ cars[pk].status = PUBLISHED) =>
            cars[pk].published_at # NULL

\* ----------------------------------------------------------- Car: slug
\* The operations that decide a car's slug: creation with a VIN and possibly
\* a slug, changes of make, model and VIN on an instance, full saves and
\* saves of the slug column alone.  Stored makes and car models
\* carry a slug, so the slugify(title) fallback of lines 201-202 is not taken.
VinInputs == {"", "wvw1"}
SlugInputs == {<<>>, <<"promo">>}
MakeModelInputs == {<<1, 1>>, <<2, 2>>}
SlugSaveArgs == {NoFields, [given |-> TRUE, names |-> {"slug"}]}

\* h = Car.objects.create(make=audi, model=a4, vin=vin, slug=slug): the
\* instance is constructed and saved; when save() raises, the caller is left
\* with what it held before.
CarCreateWith(h, vin, slug) ==
    /\ \A g \in Handles : pc[g] = AtRest
    /\ now <= MaxTime
    /\ carSeq < MaxCarId
    /\ LET r == CarSaveResult(NewCarInst(DRAFT, 1, 1, vin, slug, now), NoFields,
                              cars, carSeq, makes, carmodels, now)
       IN /\ now' = now + 1
          /\ cars' = r.rows
          /\ carSeq' = r.seq
          /\ mem' = IF r.last.err = "" THEN [mem EXCEPT ![h] = r.inst] ELSE mem
          /\ last' = r.last
    /\ UNCHANGED <<makes, carmodels, pc, imageVars, pic>>

\* car.vin = vin
CarSetVin(h, vin) ==
    /\ pc[h] = AtRest
    /\ mem[h].bound
    /\ mem[h].vin # vin
    /\ mem' = [mem EXCEPT ![h].vin = vin]
    /\ UNCHANGED <<now, makes, carmodels, cars, carSeq, pc, last, imageVars, pic>>

\* car.make = mk; car.model = md
CarSetMakeModel(h, mk, md) ==
    /\ pc[h] = AtRest
    /\ mem[h].bound
    /\ <<mem[h].make, mem[h].model>> # <<mk, md>>
    /\ mem' = [mem EXCEPT ![h].make = mk, ![h].model = md]
    /\ UNCHANGED <<now, makes, carmodels, cars, carSeq, pc, last, imageVars, pic>>

NextCarSlug ==
    \/ \E h \in Handles, vin \in VinInputs, slug \in SlugInputs :
          CarCreateWith(h, vin, slug)
    \/ \E h \in Handles, pk \in CarIds : CarGet(h, pk)
    \/ \E h \in Handles, vin \in VinInputs : CarSetVin(h, vin)
    \/ \E h \in Handles, mm \in MakeModelInputs : CarSetMakeModel(h, mm[1], mm[2])
    \/ \E h \in Handles, uf \in SlugSaveArgs : CarSave(h, uf)

SpecCarSlug == Init /\ [][NextCarSlug]_vars

\* unique=True on Car.slug, as a property of the table
UniqueSlugs(rows) ==
    \A p \in CarIds, q \in CarIds :
        (p # q /\ rows[p].exists /\ rows[q].exists) => rows[p].slug # rows[q].slug

\* ----------------------------------------------------------------- C11
\* C11: a save that would persist a slug already stored for another car
\* fails with a constraint violation, leaves the instance with the colliding
\* slug (no disambiguated slug is generated) and leaves the table as it was;
\* no two stored cars ever share a slug.
C11_DuplicateSlugIsRejected ==
    [][/\ UniqueSlugs(cars')
       /\ (now' # now) =>
            \A h \in Handles :
              /\ \A vin \in VinInputs, slug \in SlugInputs :
                   ( /\ CarCreateWith(h, vin, slug)
                     /\ SlugTaken(cars, NULL,
                           DerivedSlug(NewCarInst(DRAFT, 1, 1, vin, slug, now),
                                       makes, carmodels)) ) =>
                      /\ last'.err = "IntegrityError"
                      /\ cars' = cars
                      /\ carSeq' = carSeq
              /\ \A uf \in SlugSaveArgs :
                   ( /\ CarSave(h, uf)
                     /\ \/ ~uf.given
                        \/ /\ "slug" \in uf.names
                           /\ mem[h].pk \in CarIds
                           /\ cars[mem[h].pk].exists
                     /\ SlugTaken(cars, mem[h].pk,
                                  DerivedSlug(mem[h], makes, carmodels)) ) =>
                      /\ last'.err = "IntegrityError"
                      /\ cars' = cars
                      /\ carSeq' = carSeq
                      /\ mem'[h].slug = DerivedSlug(mem[h], makes, carmodels)
      ]_vars

\* A second Audi A4 without VIN and without slug was created while the first,
\* the only stored car, holds the slug derived for both: the create failed.
C11_Witness ==
    /\ last.op = "Car.save" /\ last.err = "IntegrityError" /\ last.pk = NULL
    /\ carSeq = 1
    /\ cars[1].exists /\ cars[1].vin = "" /\ cars[1].slug = <<"audi", "a4">>

\* ----------------------------------------------------------------- C12
\* C12: once a car is stored, no save changes its stored slug, whatever has
\* happened to its make, model and VIN.
C12_SlugNeverRecomputed ==
    [][\A pk \in CarIds :
         (cars[pk].exists /\ cars'[pk].exists) => cars'[pk].slug = cars[pk].slug
      ]_vars

\* A car first saved as an Audi A4 without VIN has been saved again as a BMW X5
\* with a VIN, and its stored slug is still the one of the first save.
C12_Witness ==
    /\ last.op = "Car.save" /\ last.err = "" /\ last.pk \in CarIds
    /\ cars[last.pk].exists
    /\ cars[last.pk].make = 2 /\ cars[last.pk].model = 2
    /\ cars[last.pk].vin = "wvw1"
    /\ cars[last.pk].slug = <<"audi", "a4">>

\* ------------------------------------------------- Car: rows that vanish
\* Car.objects.filter(pk=pk).delete(): the row goes, and with it the images
\* of the car (on_delete=CASCADE); instances in memory keep their identifier.
CarDelete(pk) ==
    /\ \A g \in Handles : pc[g] = AtRest
    /\ cars[pk].exists
    /\ cars' = [cars EXCEPT ![pk] = NoCarRow]
    /\ images' = [q \in ImageIds |->
                    IF images[q].exists /\ images[q].car = pk
                    THEN NoImageRow ELSE images[q]]
    /\ UNCHANGED <<now, makes, carmodels, carSeq, mem, pc, last, imageSeq, imem, pic>>

\* Full saves of fresh and stale instances of cars that may have been deleted.
NextCarGone ==
    \/ \E h \in Handles, st \in StatusInputs : CarNew(h, st)
    \/ \E h \in Handles, pk \in CarIds : CarGet(h, pk)
    \/ \E h \in Handles, st \in StatusInputs : CarSetStatus(h, st)
    \/ \E h \in Handles : CarSave(h, NoFields)
    \/ \E pk \in CarIds : CarDelete(pk)

SpecCarGone == Init /\ [][NextCarGone]_vars

\* ------------------------------------------------- concurrent Car saves
\* Two requests saving at once: each save is the statements up to the read of
\* the previous status (lines 200-227), then the write (line 229), and the
\* other request may run between the two.  The API saves in full
\* (serializers.py line 141), so update_fields is absent.

\* lines 200-227 of car.save() for the request on handle h
CarSaveRead(h) ==
    /\ pc[h] = AtRest
    /\ mem[h].bound
    /\ now <= MaxTime
    /\ mem[h].pk = NULL => carSeq < MaxCarId
    /\ mem' = [mem EXCEPT
                 ![h] = CarPrepared(@, NoFields, cars, makes, carmodels, now)]
    /\ pc' = [pc EXCEPT
                 ![h] = [at |-> "write", uf |-> NoFields, t |-> now,
                         changed |-> StatusWasChanged(mem[h], NoFields, cars)]]
    /\ now' = now + 1
    /\ UNCHANGED <<makes, carmodels, cars, carSeq, last, imageVars, pic>>

\* line 229 of car.save() for the request on handle h
CarSaveWrite(h) ==
    /\ pc[h].at = "write"
    /\ mem[h].pk = NULL => carSeq < MaxCarId
    /\ LET w == CarWritten(cars, carSeq, mem[h], pc[h].uf)
       IN /\ cars' = w.rows
          /\ carSeq' = w.seq
          /\ mem' = [mem EXCEPT ![h].pk = w.pk]
          /\ last' = Op("Car.save", w.pk, w.err, FALSE, pc[h].changed)
    /\ pc' = [pc EXCEPT ![h] = AtRest]
    /\ UNCHANGED <<now, makes, carmodels, imageVars, pic>>

NextCarConc ==
    \/ \E h \in Handles, st \in StatusInputs : CarNew(h, st)
    \/ \E h \in Handles, pk \in CarIds : CarGet(h, pk)
    \/ \E h \in Handles, st \in StatusInputs : CarSetStatus(h, st)
    \/ \E h \in Handles : CarSaveRead(h)
    \/ \E h \in Handles : CarSaveWrite(h)

SpecCarConc == Init /\ [][NextCarConc]_vars

\* ------------------------------------------------------------------ C8
\* C8: when the write that ends the last save in progress changes the
\* persisted status of a car, the persisted status_changed_at it leaves is
\* the time of that save (the change is not left without its timestamp).
C8_ConcurrentSavesKeepTransition ==
    [][\A h \in Handles :
         ( /\ pc[h].at = "write"
           /\ \A g \in Handles : pc'[g] = AtRest
           /\ mem[h].pk \in CarIds
           /\ cars[mem[h].pk].exists
           /\ cars'[mem[h].pk].status # cars[mem[h].pk].status ) =>
            cars'[mem[h].pk].status_changed_at = pc[h].t
      ]_vars

\* -------------------------------------------------------- the REST API
\* CarViewSet is a ModelViewSet over CarSerializer: a write parses the
\* request into attrs (keyed by the fields' sources, so make_id arrives as
\* "make"), runs CarSerializer.validate, and only then saves.  An absent
\* attribute is NULL (make, model) or "" (status).
ApiAttrs ==
    [make : Makes \cup {NULL}, model : CarModels \cup {NULL},
     status : {"", PUBLISHED}]

\* attrs.get("make") or getattr(self.instance, "make", None)
EffectiveMake(attrs, inst) ==
    IF attrs.make # NULL THEN attrs.make
    ELSE IF inst.bound THEN inst.make ELSE NULL

\* A validate() that reads the model from the request only.
EffectiveModelFromAttrsOnly(attrs, inst) ==
    IF attrs.model # NULL THEN attrs.model ELSE NULL

\* attrs.get("model") or getattr(self.instance, "model", None)
EffectiveModel(attrs, inst) ==
    IF attrs.model # NULL THEN attrs.model
    ELSE IF inst.bound THEN inst.model ELSE NULL

\* serializers.py lines 148-155: TRUE when validate() raises
ValidateRaises(attrs, inst, mds) ==
    LET make == EffectiveMake(attrs, inst)
        model == EffectiveModel(attrs, inst)
    IN make # NULL /\ model # NULL /\ mds[model].make # make

\* ModelSerializer.update: setattr for every attribute supplied
WithAttrs(inst, attrs) ==
    [inst EXCEPT
        !.make = IF attrs.make # NULL THEN attrs.make ELSE @,
        !.model = IF attrs.model # NULL THEN attrs.model ELSE @,
        !.status = IF attrs.status # "" THEN attrs.status ELSE @]

\* What a validated write saves, and with what outcome.
ApiSaved(inst, name) ==
    LET r == CarSaveResult(inst, NoFields, cars, carSeq, makes, carmodels, now)
    IN /\ now' = now + 1
       /\ cars' = r.rows
       /\ carSeq' = r.seq
       /\ last' = [r.last EXCEPT !.op = name]

ApiRejected(name, pk) ==
    /\ last' = Op(name, pk, "ValidationError", FALSE, FALSE)
    /\ UNCHANGED <<now, cars, carSeq>>

\* POST /cars/: make_id and model_id are required fields
ApiCarCreate(attrs) ==
    /\ attrs.make # NULL /\ attrs.model # NULL
    /\ now <= MaxTime
    /\ carSeq < MaxCarId
    /\ IF ValidateRaises(attrs, NoCarInst, carmodels)
       THEN ApiRejected("Car.create", NULL)
       ELSE ApiSaved(
                NewCarInst(IF attrs.status # "" THEN attrs.status ELSE DRAFT,
                           attrs.make, attrs.model, "", <<>>, now),
                "Car.create")
    /\ UNCHANGED <<makes, carmodels, mem, pc, imageVars, pic>>

\* PUT /cars/pk/ (partial = FALSE, make_id and model_id required) and
\* PATCH /cars/pk/ (partial = TRUE)
ApiCarUpdate(pk, attrs, partial) ==
    /\ cars[pk].exists
    /\ ~partial => (attrs.make # NULL /\ attrs.model # NULL)
    /\ now <= MaxTime
    /\ LET instance == CarInstOfRow(pk, cars[pk])
           name == IF partial THEN "Car.partial_update" ELSE "Car.update"
       IN IF ValidateRaises(attrs, instance, carmodels)
          THEN ApiRejected(name, pk)
          ELSE ApiSaved(WithAttrs(instance, attrs), name)
    /\ UNCHANGED <<makes, carmodels, mem, pc, imageVars, pic>>

\* PUT or PATCH /models/md/ with make_id = mk (CarModelSerializer)
ApiCarModelUpdate(md, mk) ==
    /\ carmodels[md].make # mk
    /\ carmodels' = [carmodels EXCEPT ![md].make = mk]
    /\ last' = Op("CarModel.update", md, "", FALSE, FALSE)
    /\ UNCHANGED <<now, makes, cars, carSeq, mem, pc, imageVars, pic>>

NextApi ==
    \/ \E attrs \in ApiAttrs : ApiCarCreate(attrs)
    \/ \E pk \in CarIds, attrs \in ApiAttrs, partial \in BOOLEAN :
          ApiCarUpdate(pk, attrs, partial)
    \/ \E md \in CarModels, mk \in Makes : ApiCarModelUpdate(md, mk)

SpecApi == Init /\ [][NextApi]_vars

\* ------------------------------------------------------------------ C9
\* C9: a car write at the API (create, full update, partial update) whose
\* effective make and effective model are both present and do not belong
\* together is rejected with a validation error, whatever else it carries,
\* and leaves the Car table as it was.
C9_MismatchedMakeModelRejected ==
    [][/\ (last'.op = "Car.create") =>
            \A attrs \in ApiAttrs :
                ( /\ attrs.make # NULL /\ attrs.model # NULL
                  /\ carmodels[attrs.model].make # attrs.make
                  /\ ApiCarCreate(attrs) ) =>
                    /\ last'.err = "ValidationError"
                    /\ cars' = cars /\ carSeq' = carSeq
       /\ (last'.op \in {"Car.update", "Car.partial_update"}) =>
            \A pk \in {last'.pk} \cap CarIds, attrs \in ApiAttrs :
                ( /\ cars[pk].exists
                  /\ LET make == IF attrs.make # NULL THEN attrs.make
                                 ELSE cars[pk].make
                         model == IF attrs.model # NULL THEN attrs.model
                                  ELSE cars[pk].model
                     IN carmodels[model].make # make
                  /\ ApiCarUpdate(pk, attrs, last'.op = "Car.partial_update") ) =>
                    /\ last'.err = "ValidationError"
                    /\ cars' = cars /\ carSeq' = carSeq
      ]_vars

\* A partial update of a persisted car has been rejected for its make/model
\* pairing while a car is stored.
C9_Witness ==
    /\ last.op = "Car.partial_update"
    /\ last.err = "ValidationError"
    /\ cars[last.pk].exists

\* ------------------------------------------------------------ CarImage
CarImageInstOfRow(pk, row) ==
    [bound |-> TRUE, pk |-> pk, car |-> row.car, is_primary |-> row.is_primary,
     image |-> row.image, caption |-> row.caption, ordering |-> row.ordering]

CarImageRowOfInst(inst) ==
    [exists |-> TRUE, car |-> inst.car, is_primary |-> inst.is_primary,
     image |-> inst.image, caption |-> inst.caption, ordering |-> inst.ordering]

\* models.py line 255: the file is new when it has not been committed
NeedsOptimising(inst) == inst.image \in Uploads

\* A codec that accepts every payload.
OptimiseNeverRaises(image) == FALSE

\* image_processing.py lines 36-55: Image.open raises on bytes the codec cannot
\* decode; otherwise the result is a JPEG named <stem>.jpg
OptimiseRaises(image) == image = GARBAGE

\* models.py lines 255-258: the instance once the optimised file is stored
CarImageOptimised(inst) ==
    IF NeedsOptimising(inst) THEN [inst EXCEPT !.image = STORED] ELSE inst

\* models.py line 260, super().save(): INSERT for a new instance, otherwise
\* UPDATE of every column, and INSERT when no row matched.  The foreign key
\* to Car is enforced.
CarImageWritten(rows, seq, inst, carRows) ==
    IF ~carRows[inst.car].exists
    THEN [rows |-> rows, seq |-> seq, pk |-> inst.pk, err |-> "IntegrityError"]
    ELSE IF inst.pk = NULL
    THEN [rows |-> [rows EXCEPT ![seq + 1] = CarImageRowOfInst(inst)],
          seq |-> seq + 1, pk |-> seq + 1, err |-> ""]
    ELSE [rows |-> [rows EXCEPT ![inst.pk] = CarImageRowOfInst(inst)],
          seq |-> seq, pk |-> inst.pk, err |-> ""]

\* A filter without .exclude(pk=self.pk).
SiblingsIncludingSelf(rows, car, pk) ==
    {q \in ImageIds : rows[q].exists /\ rows[q].car = car /\ rows[q].is_primary}

\* models.py lines 263-268: the rows
\* filter(car=self.car, is_primary=True).exclude(pk=self.pk) matches
Siblings(rows, car, pk) ==
    {q \in ImageIds :
        rows[q].exists /\ rows[q].car = car /\ rows[q].is_primary /\ q # pk}

\* A save that never clears its siblings.
SiblingsClearedNever(rows, inst) == rows

\* A save that clears its siblings when the saved image is NOT primary.
SiblingsClearedWhenNotPrimary(rows, inst) ==
    IF ~inst.is_primary
    THEN [q \in ImageIds |->
            IF q \in Siblings(rows, inst.car, inst.pk)
            THEN [rows[q] EXCEPT !.is_primary = FALSE]
            ELSE rows[q]]
    ELSE rows

\* A clearing update that also resets the position of the rows it matches.
SiblingsClearedAndReordered(rows, inst) ==
    IF inst.is_primary
    THEN [q \in ImageIds |->
            IF q \in Siblings(rows, inst.car, inst.pk)
            THEN [rows[q] EXCEPT !.is_primary = FALSE, !.ordering = 0]
            ELSE rows[q]]
    ELSE rows

\* models.py lines 262-268: .update(is_primary=False) on the matched rows
SiblingsCleared(rows, inst) ==
    IF inst.is_primary
    THEN [q \in ImageIds |->
            IF q \in Siblings(rows, inst.car, inst.pk)
            THEN [rows[q] EXCEPT !.is_primary = FALSE]
            ELSE rows[q]]
    ELSE rows

ImageOp(pk, err, cleared) ==
    [Op("CarImage.save", pk, err, FALSE, FALSE) EXCEPT !.cleared = cleared]

\* CarImage(car=car, image=upload, is_primary=primary): an unsaved instance
NewCarImageInst(car, primary, upload) ==
    [bound |-> TRUE, pk |-> NULL, car |-> car, is_primary |-> primary,
     image |-> upload, caption |-> "", ordering |-> 0]

\* CarImage.objects.get(pk=pk), refresh_from_db(), car.images.all()
CarImageGet(h, pk) ==
    /\ pc[h] = AtRest
    /\ images[pk].exists
    /\ imem' = [imem EXCEPT ![h] = CarImageInstOfRow(pk, images[pk])]
    /\ UNCHANGED <<now, makes, carmodels, cars, carSeq, mem, pc, last,
                   images, imageSeq, pic>>

\* serializers.py lines 163-165: setattr(image, "is_primary", primary)
CarImageSetPrimary(h, primary) ==
    /\ pc[h] = AtRest
    /\ imem[h].bound
    /\ imem[h].is_primary # primary
    /\ imem' = [imem EXCEPT ![h].is_primary = primary]
    /\ UNCHANGED <<now, makes, carmodels, cars, carSeq, mem, pc, last,
                   images, imageSeq, pic>>

\* serializers.py lines 163-165: setattr(image, "image", upload)
CarImageSetImage(h, upload) ==
    /\ pc[h] = AtRest
    /\ imem[h].bound
    /\ imem[h].image # upload
    /\ imem' = [imem EXCEPT ![h].image = upload]
    /\ UNCHANGED <<now, makes, carmodels, cars, carSeq, mem, pc, last,
                   images, imageSeq, pic>>

\* What image.save() does to the table, the sequence and the instance when
\* it runs with no other request in between (models.py lines 254-268).
CarImageSaveResult(inst, rows, seq, carRows) ==
    IF NeedsOptimising(inst) /\ OptimiseRaises(inst.image)
    THEN [rows |-> rows, seq |-> seq, inst |-> inst,
          last |-> ImageOp(inst.pk, "UnidentifiedImageError", {})]
    ELSE LET optimised == CarImageOptimised(inst)
             w == CarImageWritten(rows, seq, optimised, carRows)
             saved == [optimised EXCEPT !.pk = w.pk]
         IN IF w.err # ""
            THEN [rows |-> rows, seq |-> seq, inst |-> saved,
                  last |-> ImageOp(w.pk, w.err, {})]
            ELSE [rows |-> SiblingsCleared(w.rows, saved), seq |-> w.seq,
                  inst |-> saved,
                  last |-> ImageOp(w.pk, "",
                             IF saved.is_primary
                             THEN Siblings(w.rows, saved.car, saved.pk)
                             ELSE {})]

\* image.save() on the instance held by h
CarImageSave(h) ==
    /\ \A g \in Handles : pc[g] = AtRest
    /\ imem[h].bound
    /\ imem[h].pk = NULL => imageSeq < MaxImageId
    /\ LET r == CarImageSaveResult(imem[h], images, imageSeq, cars)
       IN /\ images' = r.rows
          /\ imageSeq' = r.seq
          /\ imem' = [imem EXCEPT ![h] = r.inst]
          /\ last' = r.last
    /\ UNCHANGED <<now, makes, carmodels, cars, carSeq, mem, pc, pic>>

\* h = CarImage.objects.create(car=car, image=upload, is_primary=primary):
\* the instance is constructed and saved; when save() raises, the caller is
\* left with what it held before.
CarImageCreate(h, car, primary, upload) ==
    /\ \A g \in Handles : pc[g] = AtRest
    /\ imageSeq < MaxImageId
    /\ LET r == CarImageSaveResult(NewCarImageInst(car, primary, upload),
                                   images, imageSeq, cars)
       IN /\ images' = r.rows
          /\ imageSeq' = r.seq
          /\ imem' = IF r.last.err = "" THEN [imem EXCEPT ![h] = r.inst] ELSE imem
          /\ last' = r.last
    /\ UNCHANGED <<now, makes, carmodels, cars, carSeq, mem, pc, pic>>

\* serializers.py line 172: CarImage.objects.filter(id__in=[pk]).delete()
CarImageDelete(pk) ==
    /\ images[pk].exists
    /\ images' = [images EXCEPT ![pk] = NoImageRow]
    /\ last' = Op("CarImage.delete", pk, "", FALSE, FALSE)
    /\ UNCHANGED <<now, makes, carmodels, cars, carSeq, mem, pc, imageSeq, imem, pic>>

\* Two cars are stored before any image is: an Audi A4 created at tick 1 and a
\* BMW X5 created at tick 2, each through POST /cars/.
InitImage ==
    /\ now = 3
    /\ makes = [m \in Makes |-> [slug |-> IF m = 1 THEN "audi" ELSE "bmw"]]
    /\ carmodels = [m \in CarModels |->
                      [make |-> m, slug |-> IF m = 1 THEN "a4" ELSE "x5"]]
    /\ cars = [pk \in CarIds |->
                 IF pk = 1
                 THEN CarRowOfInst([NewCarInst(DRAFT, 1, 1, "", <<"audi", "a4">>, 1)
                                      EXCEPT !.pk = 1])
                 ELSE IF pk = 2
                 THEN CarRowOfInst([NewCarInst(DRAFT, 2, 2, "", <<"bmw", "x5">>, 2)
                                      EXCEPT !.pk = 2])
                 ELSE NoCarRow]
    /\ carSeq = 2
    /\ mem = [h \in Handles |-> NoCarInst]
    /\ pc = [h \in Handles |-> AtRest]
    /\ last = Op("", NULL, "", FALSE, FALSE)
    /\ images = [pk \in ImageIds |-> NoImageRow]
    /\ imageSeq = 0
    /\ imem = [h \in Handles |-> NoImageInst]
    /\ pic = NoPicture

ImageCars == {1, 2}

NextImage ==
    \/ \E h \in Handles, car \in ImageCars, primary \in BOOLEAN, upload \in Uploads :
          CarImageCreate(h, car, primary, upload)
    \/ \E h \in Handles, pk \in ImageIds : CarImageGet(h, pk)
    \/ \E h \in Handles, primary \in BOOLEAN : CarImageSetPrimary(h, primary)
    \/ \E h \in Handles, upload \in Uploads : CarImageSetImage(h, upload)
    \/ \E h \in Handles : CarImageSave(h)
    \/ \E pk \in ImageIds : CarImageDelete(pk)

SpecImage == InitImage /\ [][NextImage]_vars

Primaries(rows, car) ==
    {q \in ImageIds : rows[q].exists /\ rows[q].car = car /\ rows[q].is_primary}

\* ------------------------------------------------------------------ C1
\* C1: after any sequence of completed CarImage creations, saves and
\* deletions, every car has at most one image with is_primary = true.
C1_AtMostOnePrimary ==
    \A car \in CarIds : Cardinality(Primaries(images, car)) <= 1

\* An older image has been saved again with is_primary = true after a newer
\* image of the car had become the primary one: the save took the flag from
\* the newer image, whose in-memory instance is now stale.
C1_Witness ==
    /\ last.op = "CarImage.save" /\ last.err = ""
    /\ \E q \in last.cleared : last.pk < q
    /\ \E h \in Handles :
         /\ imem[h].bound /\ imem[h].pk \in last.cleared
         /\ imem[h].is_primary
         /\ ~images[imem[h].pk].is_primary

\* ------------------------------------------------------------------ C2
\* C2: when a save of an image whose is_primary is true completes, run on its
\* own, the images of its car with is_primary = true are exactly the image
\* just saved.
C2_SavedPrimaryIsTheOnlyPrimary ==
    [][(last'.op = "CarImage.save" /\ last'.err = "") =>
       \A h \in Handles :
          ( \/ imem[h].bound /\ imem[h].is_primary /\ CarImageSave(h)
            \/ \E car \in ImageCars, upload \in Uploads :
                  CarImageCreate(h, car, TRUE, upload) ) =>
             Primaries(images', imem'[h].car) = {imem'[h].pk}
      ]_vars

\* Two images of one car were created in sequence, both with
\* is_primary = true: the second is the primary one and the first no longer is.
C2_Witness ==
    /\ last.op = "CarImage.save" /\ last.err = ""
    /\ last.pk = 2 /\ last.cleared = {1}
    /\ images[2].is_primary /\ images[2].car = images[1].car
    /\ images[1].exists /\ ~images[1].is_primary

\* ----------------------------------------------------------------- C10
\* C10: a save whose new file cannot be decoded raises before the row is
\* written: no CarImage row is created or modified, no sibling loses its
\* flag, and the instance keeps no identifier it did not have.
C10_UndecodableUploadWritesNothing ==
    [][(last'.op = "CarImage.save") =>
       \A h \in Handles :
          ( \/ imem[h].bound /\ imem[h].image = GARBAGE /\ CarImageSave(h)
            \/ \E car \in ImageCars, primary \in BOOLEAN :
                  CarImageCreate(h, car, primary, GARBAGE) ) =>
             /\ last'.err = "UnidentifiedImageError"
             /\ images' = images
             /\ imageSeq' = imageSeq
             /\ imem'[h].pk = imem[h].pk
      ]_vars

\* A save of an undecodable upload flagged is_primary has failed while another
\* image of the same car is the primary one.
C10_Witness ==
    /\ last.op = "CarImage.save" /\ last.err = "UnidentifiedImageError"
    /\ \E h \in Handles :
         /\ imem[h].bound /\ imem[h].image = GARBAGE /\ imem[h].is_primary
         /\ imem[h].pk = last.pk
         /\ \E q \in Primaries(images, imem[h].car) : q # imem[h].pk

\* ------------------------------------------- concurrent CarImage saves
\* Two requests saving images at once: each save is the statements up to the
\* write of its own row (models.py lines 255-260), then the update of its
\* siblings (lines 262-268); the other request may run between the two.
\* settings.py sets no ATOMIC_REQUESTS and save() opens no transaction, so
\* each statement commits on its own.

\* models.py lines 255-260 for the request on handle h saving `inst`
Persist(h, inst) ==
    /\ pc[h] = AtRest
    /\ inst.pk = NULL => imageSeq < MaxImageId
    /\ IF NeedsOptimising(inst) /\ OptimiseRaises(inst.image)
       THEN /\ last' = ImageOp(inst.pk, "UnidentifiedImageError", {})
            /\ UNCHANGED <<images, imageSeq, imem, pc>>
       ELSE LET optimised == CarImageOptimised(inst)
                w == CarImageWritten(images, imageSeq, optimised, cars)
            IN /\ images' = w.rows
               /\ imageSeq' = w.seq
               /\ imem' = [imem EXCEPT ![h] = [optimised EXCEPT !.pk = w.pk]]
               /\ IF w.err # ""
                  THEN last' = ImageOp(w.pk, w.err, {}) /\ pc' = pc
                  ELSE /\ last' = last
                       /\ pc' = [pc EXCEPT ![h] = [AtRest EXCEPT !.at = "clear"]]
    /\ UNCHANGED <<now, makes, carmodels, cars, carSeq, mem, pic>>

\* image.save(), up to its own row
CarImageSavePersist(h) == imem[h].bound /\ Persist(h, imem[h])

\* CarImage.objects.create(...), up to its own row
CarImageCreatePersist(h, car, primary, upload) ==
    Persist(h, NewCarImageInst(car, primary, upload))

\* models.py lines 262-268
CarImageSaveClear(h) ==
    /\ pc[h].at = "clear"
    /\ images' = SiblingsCleared(images, imem[h])
    /\ last' = ImageOp(imem[h].pk, "",
                  IF imem[h].is_primary
                  THEN Siblings(images, imem[h].car, imem[h].pk) ELSE {})
    /\ pc' = [pc EXCEPT ![h] = AtRest]
    /\ UNCHANGED <<now, makes, carmodels, cars, carSeq, mem, imageSeq, imem, pic>>

NextImageConc ==
    \/ \E h \in Handles, car \in ImageCars, primary \in BOOLEAN, upload \in Uploads :
          CarImageCreatePersist(h, car, primary, upload)
    \/ \E h \in Handles, pk \in ImageIds : CarImageGet(h, pk)
    \/ \E h \in Handles, primary \in BOOLEAN : CarImageSetPrimary(h, primary)
    \/ \E h \in Handles, upload \in Uploads : CarImageSetImage(h, upload)
    \/ \E h \in Handles : CarImageSavePersist(h)
    \/ \E h \in Handles : CarImageSaveClear(h)
    \/ \E pk \in ImageIds : CarImageDelete(pk)

SpecImageConc == InitImage /\ [][NextImageConc]_vars

\* ------------------------------------------------------------------ C3
\* C3: under every interleaving of the persist and clear-siblings steps of
\* concurrent saves, once no save is in progress no car has two images with
\* is_primary = true.
C3_NoTwoPrimariesOnceSavesFinished ==
    (\A h \in Handles : pc[h] = AtRest) =>
        \A car \in CarIds : Cardinality(Primaries(images, car)) <= 1

\* Two saves of two images of one car, both with is_primary = true, have
\* overlapped: both persisted before either cleared, and both have finished.
C3_Witness ==
    /\ \A h \in Handles : pc[h] = AtRest
    /\ last.op = "CarImage.save" /\ last.err = ""
    /\ last.cleared # {}
    /\ ~images[last.pk].is_primary
    /\ \E h \in Handles, g \in Handles :
         /\ imem[h].pk = last.pk /\ imem[g].pk \in last.cleared
         /\ imem[h].is_primary /\ imem[g].is_primary
         /\ imem[h].car = imem[g].car

\* ------------------------------------------------- optimise_car_image
MAX_IMAGE_SIZE == 2560   \* both members of the (2560, 2560) box
MaxPasses == 2           \* runs of optimise_car_image on one upload

Abs(n) == IF n < 0 THEN -n ELSE n

\* Path(original_name).stem: the name without its last suffix
Stem(name) == IF Len(name) > 1 THEN SubSeq(name, 1, Len(name) - 1) ELSE name

\* f"{base_name}.jpg"
OptimisedName(name) == Stem(name) \o <<"jpg">>

\* ImageOps.exif_transpose: orientations 5 to 8 turn the picture by a quarter,
\* which swaps width and height; the tag is removed.
ExifTransposed(file) ==
    [file EXCEPT
        !.width = IF file.orientation \in 5..8 THEN file.height ELSE @,
        !.height = IF file.orientation \in 5..8 THEN file.width ELSE @,
        !.orientation = 1]

\* lines 44-45
Converted(file) ==
    [file EXCEPT !.mode = IF @ \in {"RGB", "L"} THEN @ ELSE "RGB"]

\* Image.thumbnail's round_aspect for an exact value floor + rest/unit, where
\* floorCloser says that the floor keeps the aspect ratio at least as well as
\* the ceiling: the closer of the two, the floor on a tie, and never below 1.
RoundAspect(floor, rest, floorCloser) ==
    LET n == IF rest = 0 \/ floorCloser THEN floor ELSE floor + 1
    IN IF n < 1 THEN 1 ELSE n

\* A mutilating resize: each edge is cut to the box on its own.
ThumbnailCropped(w, h) ==
    <<IF w > MAX_IMAGE_SIZE THEN MAX_IMAGE_SIZE ELSE w,
      IF h > MAX_IMAGE_SIZE THEN MAX_IMAGE_SIZE ELSE h>>

\* A resize that halves every picture it is given.
ThumbnailHalved(w, h) ==
    <<IF w > 1 THEN w \div 2 ELSE 1, IF h > 1 THEN h \div 2 ELSE 1>>

\* image.thumbnail(MAX_IMAGE_SIZE): the size of a w x h picture afterwards.
\* Nothing happens inside the box.  Otherwise, with aspect = w / h, a picture
\* no wider than high keeps the box's height and gets the width
\* round_aspect(2560 * aspect), judged by |aspect - n / 2560|; a wider one
\* keeps the box's width and gets the height round_aspect(2560 / aspect),
\* judged by |aspect - 2560 / n|.
ThumbnailSize(w, h) ==
    IF MAX_IMAGE_SIZE >= w /\ MAX_IMAGE_SIZE >= h
    THEN <<w, h>>
    ELSE IF w <= h
    THEN LET floor == (MAX_IMAGE_SIZE * w) \div h
             rest == (MAX_IMAGE_SIZE * w) % h
         IN <<RoundAspect(floor, rest, 2 * rest <= h), MAX_IMAGE_SIZE>>
    ELSE LET floor == (MAX_IMAGE_SIZE * h) \div w
             rest == (MAX_IMAGE_SIZE * h) % w
         IN <<MAX_IMAGE_SIZE,
              RoundAspect(floor, rest, rest * (2 * floor + 1) <= floor * w)>>

\* optimise_car_image(file_obj), lines 36-55, for a file the codec can decode
OptimiseCarImage(file) ==
    LET image == Converted(ExifTransposed(file))
        size == ThumbnailSize(image.width, image.height)
    IN [name |-> OptimisedName(file.name), format |-> "JPEG",
        mode |-> image.mode, orientation |-> 1,
        width |-> size[1], height |-> size[2]]

\* The size of the picture as the viewer sees it
OrientedSize(file) ==
    <<ExifTransposed(file).width, ExifTransposed(file).height>>

\* Uploads: names with one, two and no suffix; upright and turned pictures;
\* pixel modes that stay and modes that are converted; edges inside, on and
\* beyond the box.
NameInputs == {<<"big-photo", "png">>, <<"scan", "tar", "gz">>, <<"car-image">>}
FormatInputs == {"PNG", "JPEG"}
ModeInputs == {"RGB", "L", "RGBA"}
OrientationInputs == {1, 3, 6}
EdgeInputs == {1, 2, 1920, 2559, 2560, 2561, 3000, 4000, 5121, 10000}
UploadedFiles ==
    [name : NameInputs, format : FormatInputs, mode : ModeInputs,
     orientation : OrientationInputs, width : EdgeInputs, height : EdgeInputs]

\* A file arrives
Upload(file) ==
    /\ pic.passes = 0
    /\ pic = NoPicture
    /\ pic' = [passes |-> 0, source |-> file, result |-> NoFile]
    /\ UNCHANGED <<now, makes, carmodels, cars, carSeq, mem, pc, last, imageVars>>

\* optimise_car_image runs on the upload, then again on its own output
Optimise ==
    /\ pic # NoPicture
    /\ pic.passes < MaxPasses
    /\ LET input == IF pic.passes = 0 THEN pic.source ELSE pic.result
       IN pic' = [passes |-> pic.passes + 1, source |-> input,
                  result |-> OptimiseCarImage(input)]
    /\ UNCHANGED <<now, makes, carmodels, cars, carSeq, mem, pc, last, imageVars>>

NextOptimise ==
    \/ \E file \in UploadedFiles : Upload(file)
    \/ Optimise

SpecOptimise == Init /\ [][NextOptimise]_vars

\* ----------------------------------------------------------------- C13
\* C13: for a picture of oriented size W x H the result is at most 2560 on
\* each edge; it is W x H when both are within 2560; otherwise the longer edge
\* is 2560 and the other is within one pixel of its exact share
\* (2560 * shorter / longer), so 4000 x 3000 becomes 2560 x 1920.
C13_DimensionsBounded ==
    pic.passes >= 1 =>
       LET W == OrientedSize(pic.source)[1]
           H == OrientedSize(pic.source)[2]
           W2 == pic.result.width
           H2 == pic.result.height
       IN /\ W2 <= 2560 /\ H2 <= 2560 /\ W2 >= 1 /\ H2 >= 1
          /\ (W <= 2560 /\ H <= 2560) => (W2 = W /\ H2 = H)
          /\ (W > 2560 /\ W >= H) =>
                (W2 = 2560 /\ Abs(H2 * W - 2560 * H) < W)
          /\ (H > 2560 /\ H >= W) =>
                (H2 = 2560 /\ Abs(W2 * H - 2560 * W) < H)
          /\ (W = 4000 /\ H = 3000) => (W2 = 2560 /\ H2 = 1920)

\* A turned 3000 x 4000 file, 4000 x 3000 once upright, has been reduced.
C13_Witness ==
    /\ pic.passes = 1
    /\ pic.source.orientation = 6
    /\ pic.source.width = 3000 /\ pic.source.height = 4000
    /\ pic.result.width = 2560 /\ pic.result.height = 1920

\* ----------------------------------------------------------------- C14
\* C14: running the normalisation on its own output keeps the width and the
\* height of the first pass, and in both passes the output is a JPEG whose
\* name ends in .jpg.
C14_DimensionIdempotent ==
    /\ pic.passes >= 1 =>
          /\ pic.result.format = "JPEG"
          /\ pic.result.name[Len(pic.result.name)] = "jpg"
    /\ pic.passes >= 2 =>
          /\ pic.result.width = pic.source.width
          /\ pic.result.height = pic.source.height

\* The second pass has run on a 2560 x 1920 output of the first.
C14_Witness ==
    /\ pic.passes = 2
    /\ pic.source.format = "JPEG"
    /\ pic.source.name = <<"scan", "tar", "jpg">>
    /\ pic.source.width = 2560 /\ pic.source.height = 1920
    /\ pic.result.width = 2560 /\ pic.result.height = 1920

\* ----------------------------------------------------------------- C15
\* C15: when a save of a primary image finishes last of two overlapping saves
\* of two different primary images of one car (the other save, the latest
\* to finish, has cleared the flag this save had persisted), the car is left
\* with exactly one primary image.
C15_ConcurrentSavesLeaveOnePrimary ==
    [][\A h \in Handles :
         ( /\ CarImageSaveClear(h)
           /\ \A g \in Handles : pc'[g] = AtRest
           /\ imem[h].is_primary
           /\ images[imem[h].pk].exists
           /\ last.op = "CarImage.save" /\ last.err = ""
           /\ last.pk # imem[h].pk
           /\ imem[h].pk \in last.cleared ) =>
            Cardinality(Primaries(images', imem[h].car)) = 1
      ]_vars

\* ----------------------------------------------------------------- C16
\* C16: the row write of a primary image and the clearing of its siblings are
\* one atomic step: in no state of the table, the one between the two
\* statements included, are two images of one car both primary.
C16_PersistAndClearAtomic ==
    ~ \E p \in ImageIds, q \in ImageIds :
          /\ p # q
          /\ images[p].exists /\ images[q].exists
          /\ images[p].car = images[q].car
          /\ images[p].is_primary /\ images[q].is_primary

\* ------------------------------------------- CarImage: the other rows
\* Images with a caption and a position, so that a save has something to
\* disturb: an image is created with both, and afterwards loaded, flagged and
\* saved by fresh and stale instances.
\* <<caption, ordering>> of a new image: the defaults, or a caption and a place
LabelInputs == {<<"", 0>>, <<"front", 1>>}

\* CarImage.objects.create(car=car, image=upload, is_primary=primary,
\*                         caption=caption, ordering=ordering)
CarImageCreateWith(h, car, primary, caption, ordering) ==
    /\ \A g \in Handles : pc[g] = AtRest
    /\ imageSeq < MaxImageId
    /\ LET inst == [NewCarImageInst(car, primary, UPLOAD)
                      EXCEPT !.caption = caption, !.ordering = ordering]
           r == CarImageSaveResult(inst, images, imageSeq, cars)
       IN /\ images' = r.rows
          /\ imageSeq' = r.seq
          /\ imem' = IF r.last.err = "" THEN [imem EXCEPT ![h] = r.inst] ELSE imem
          /\ last' = r.last
    /\ UNCHANGED <<now, makes, carmodels, cars, carSeq, mem, pc, pic>>

NextImageFrame ==
    \/ \E h \in Handles, car \in ImageCars, primary \in BOOLEAN,
          label \in LabelInputs :
          CarImageCreateWith(h, car, primary, label[1], label[2])
    \/ \E h \in Handles, pk \in ImageIds : CarImageGet(h, pk)
    \/ \E h \in Handles, primary \in BOOLEAN : CarImageSetPrimary(h, primary)
    \/ \E h \in Handles : CarImageSave(h)

SpecImageFrame == InitImage /\ [][NextImageFrame]_vars

\* ----------------------------------------------------------------- C17
\* C17: a save changes no row but its own, except that a save of a primary
\* image turns is_primary from true to false on the other primary images of
\* the same car: every other row keeps its caption, ordering, payload and
\* car, rows of other cars and rows that were not primary keep their flag,
\* and no other row appears or disappears.
C17_SaveLeavesOtherRowsAlone ==
    [][\A h \in Handles :
         ( \/ CarImageSave(h)
           \/ \E car \in ImageCars, primary \in BOOLEAN, label \in LabelInputs :
                 CarImageCreateWith(h, car, primary, label[1], label[2]) ) =>
            \A q \in ImageIds :
               (q # last'.pk) =>
                  /\ images'[q].exists = images[q].exists
                  /\ images'[q].caption = images[q].caption
                  /\ images'[q].ordering = images[q].ordering
                  /\ images'[q].image = images[q].image
                  /\ images'[q].car = images[q].car
                  /\ images'[q].is_primary # images[q].is_primary =>
                        /\ images[q].is_primary /\ ~images'[q].is_primary
                        /\ images[q].car = images'[last'.pk].car
                        /\ images'[last'.pk].is_primary
      ]_vars

\* A primary image was saved for a car whose previous primary image has a
\* caption and a position: that image lost the flag and kept both.
C17_Witness ==
    /\ last.op = "CarImage.save" /\ last.err = "" /\ last.pk \in ImageIds
    /\ images[last.pk].is_primary
    /\ \E q \in last.cleared :
         /\ ~images[q].is_primary
         /\ images[q].caption = "front" /\ images[q].ordering = 1
         /\ images[q].car = images[last.pk].car

\* ----------------------------------------------------------------- C18
\* C18: a full save of a car that has no stored row, because the instance has
\* no identifier yet or because no row carries its identifier, counts as a
\* status change: status_changed_at becomes the time of that save on the
\* instance and in the row it stores.
C18_SaveWithoutPriorRowIsAChange ==
    [][(now' # now) =>
         \A h \in Handles :
            ( /\ CarSave(h, NoFields)
              /\ \/ mem[h].pk = NULL
                 \/ mem[h].pk \in CarIds /\ ~cars[mem[h].pk].exists
              /\ last'.err = "" ) =>
               /\ last'.status_was_changed
               /\ mem'[h].status_changed_at = now
               /\ cars'[last'.pk].status_changed_at = now
      ]_vars

\* ----------------------------------------------------------------- C19
\* C19: in every state of the tables reached through the API, the car model
\* of each stored car belongs to the car's make.
C19_ModelBelongsToMake ==
    \A pk \in CarIds :
        cars[pk].exists => carmodels[cars[pk].model].make = cars[pk].make

====
